---- MODULE Spec2Model ----
(***************************************************************************)
(* The enum object of src/02basics/enums.ts.  A TypeScript enum is         *)
(* compiled to one JavaScript object (enums.ts:156-166): every numeric     *)
(* member runs  Direction[(Direction["Up"] = 0)] = "Up", which writes the  *)
(* name -> value property and the value -> name property of the SAME       *)
(* object; a string member writes the name -> value property only          *)
(* (enums.ts:93, 283-289).  Forward lookup is the property read            *)
(* Direction.Up, reverse lookup the property read Direction[0]; a read of  *)
(* a property the object does not have yields undefined (enums.ts:96,289). *)
(***************************************************************************)
EXTENDS Integers, Sequences, FiniteSets, TLC

\* ---------------------------------------------------------------- bounds
MaxLen == 3         \* members of a declaration in Spec
MaxVal == 1         \* explicit integer initializers are 0..MaxVal
MaxAutoLen == 4     \* members of a declaration in SpecAuto
MaxItems == 3       \* items added to a Repository
MaxId == 2          \* entity ids are 1..MaxId
MaxSpins == 3       \* iterations of while (true) that are counted
MaxArrayLen == 2    \* elements of arr1 and of arr2
MaxPush == 3        \* push calls on numbers
MaxDigits == 2      \* toFixed is called with 0..MaxDigits digits
MaxResets == 2      \* reset calls that are counted

\* Member names of the source (enums.ts:12-15); Spec declares over three of
\* them, SpecAuto over all four.
Names == {"Up", "Down", "Left", "Right"}
MainNames == {"Up", "Down", "Left"}
\* String initializers: "UP" is the source's (enums.ts:74); "0" is a string
\* whose text is also the property key of the number 0.
Strings == {"UP", "0"}

\* ------------------------------------------------------ JavaScript values
Num(n) == [t |-> "number", n |-> n, s |-> ""]
Str(s) == [t |-> "string", n |-> 0, s |-> s]
Undefined == [t |-> "undefined", n |-> 0, s |-> ""]
\* a member written without initializer (enums.ts:33)
Bare == [t |-> "bare", n |-> 0, s |-> ""]

Initializers == {Bare} \cup {Num(v) : v \in 0..MaxVal} \cup {Str(s) : s \in Strings}

\* The auto-value counter holds no number.
NoAuto == -1

Digit(d) ==
    CASE d = 0 -> "0" [] d = 1 -> "1" [] d = 2 -> "2" [] d = 3 -> "3"
      [] d = 4 -> "4" [] d = 5 -> "5" [] d = 6 -> "6" [] d = 7 -> "7"
      [] d = 8 -> "8" [] d = 9 -> "9"

\* Number::toString of a non-negative integer: its decimal digits.
RECURSIVE NumberToString(_)
NumberToString(n) ==
    IF n < 10 THEN Digit(n) ELSE NumberToString(n \div 10) \o Digit(n % 10)

\* The key of the property that  obj[v]  reads or writes: a number is
\* converted to its decimal text, a string is its own key.
ToPropertyKey(v) ==
    CASE v.t = "number" -> NumberToString(v.n)
      [] v.t = "string" -> v.s
      [] OTHER -> "undefined"

GetOrZero(o, k) == IF k \in DOMAIN o THEN o[k] ELSE Num(0)
\* obj[k] as a read: undefined for a property the object does not have.
Get(o, k) == IF k \in DOMAIN o THEN o[k] ELSE Undefined

\* obj[k] = v
Set(o, k, v) == [x \in (DOMAIN o) \cup {k} |-> IF x = k THEN v ELSE o[x]]

EmptyObject == [x \in {} |-> Undefined]

\* ------------------------------------------------------ the declaration
\* The first bare member is 0 (enums.ts:26, 33).
InitialAuto == 0

MemberValueOneBased(init, counter) ==
    IF init = Bare
    THEN IF counter = NoAuto THEN Undefined ELSE Num(counter + 1)
    ELSE init
\* The value a member is bound to: its initializer, or the counter's value
\* for a bare member (enums.ts:33-36, 54-56); a bare member gets no number
\* when the counter holds none.
MemberValue(init, counter) ==
    IF init = Bare
    THEN IF counter = NoAuto THEN Undefined ELSE Num(counter)
    ELSE init

NextAutoOnlyInSequence(value, counter) ==
    IF value.t = "number" /\ value.n = counter THEN value.n + 1 ELSE NoAuto
NextAutoKeep(value, counter) ==
    IF value.t = "number" THEN value.n + 1 ELSE counter
NextAutoCount(value, counter) ==
    IF value.t = "number" THEN counter + 1 ELSE NoAuto
NextAutoMax(value, counter) ==
    IF value.t = "number"
    THEN IF value.n + 1 > counter THEN value.n + 1 ELSE counter
    ELSE NoAuto
\* The counter after a member: one more than a numeric member's value
\* (enums.ts:53-56, 118-119); a string member leaves no number to count on.
NextAuto(value, counter) ==
    IF value.t = "number" THEN value.n + 1 ELSE NoAuto

WriteMemberForwardOnly(o, name, value) == Set(o, name, value)
WriteMemberBoth(o, name, value) ==
    Set(Set(o, name, value), ToPropertyKey(value), Str(name))
WriteMemberFirstWins(o, name, value) ==
    IF value.t = "string"
    THEN Set(o, name, value)
    ELSE IF ToPropertyKey(value) \in DOMAIN o
         THEN Set(o, name, value)
         ELSE Set(Set(o, name, value), ToPropertyKey(value), Str(name))
\* One member statement of the compiled enum.  Numeric member:
\*   Direction[(Direction["Up"] = 0)] = "Up"     (enums.ts:160)
\* String member:  Direction["Up"] = "UP"        (enums.ts:74, 93)
WriteMember(o, name, value) ==
    IF value.t = "string"
    THEN Set(o, name, value)
    ELSE Set(Set(o, name, value), ToPropertyKey(value), Str(name))

\* Direction.Up  (enums.ts:39, 46)
ForwardLookup(o, name) == Get(o, name)

\* Direction[0], Color["RED"]  (enums.ts:45, 96, 280, 289)
ReverseLookup(o, v) == Get(o, ToPropertyKey(v))

VARIABLES
    Direction,  \* the enum object (enums.ts:158)
    members,    \* the members declared so far, with the value each was bound to
    auto,       \* the auto-value counter
    phase,      \* "declaring" while the member statements run, then "built"
    query,      \* the last lookup made
    result      \* what it returned

enumVars == <<Direction, members, auto, phase, query, result>>

VARIABLES
    items,      \* Repository.items (generics, section 18)
    got,        \* the last getById call and what it returned
    user,       \* the object user of the readonly tutorial
    car,        \* new Car("Toyota", "Camry")
    config,     \* the object config
    call        \* the call of fail, throwError, infiniteLoop or logMessage

VARIABLES
    verdict,    \* the last isError call and what it returned (enums.ts:341)
    arr1,       \* let arr1: number[] = [1, 2]   (arrays.ts:150)
    arr2,       \* let arr2: number[] = [3, 4]   (arrays.ts:151)
    combined,   \* [...arr1, ...arr2]            (arrays.ts:152)
    numbers,    \* let numbers: number[] = [1, 2, 3, 4]  (arrays.ts:91)
    doubled,    \* numbers.map(n => n * 2)       (arrays.ts:96)
    x,          \* let x = identityAny("Hello")  (generics, section 2)
    fixed,      \* the call x.toFixed(2) and how it ended
    count,      \* let count = 0 of getCounter   (interface.ts:314)
    counted     \* the last counter(start) call and the text it returned

repoVars == <<items, got>>

spreadVars == <<arr1, arr2, combined>>

numbersVars == <<numbers, doubled>>

anyVars == <<x, fixed>>

counterVars == <<count, counted>>

exampleVars == <<verdict, spreadVars, numbersVars, anyVars, counterVars>>

readonlyVars == <<user, car, config>>

tutorialVars == <<items, got, user, car, config, call, exampleVars>>

vars == <<Direction, members, auto, phase, query, result,
          items, got, user, car, config, call,
          verdict, arr1, arr2, combined, numbers, doubled, x, fixed, count, counted>>

\* ------------------------------------------------ Repository<T extends Entity>
EntityNames == {"Alice", "Bob"}

\* { id, name }: a User entity
Entity(id, name) == [id |-> id, name |-> name]

Entities == {Entity(id, name) : id \in 1..MaxId, name \in EntityNames}

\* undefined, as getById returns it
UndefinedItem == [id |-> 0, name |-> ""]

NoCall == [id |-> 0, item |-> UndefinedItem, size |-> 0]

FindAt(array, id) == IF id \in 1..Len(array) THEN array[id] ELSE UndefinedItem
\* this.items.find((i) => i.id === id): the first element that matches, or
\* undefined
Find(array, id) ==
    IF \E k \in 1..Len(array) : array[k].id = id
    THEN array[CHOOSE k \in 1..Len(array) :
                  /\ array[k].id = id
                  /\ \A j \in 1..(k - 1) : array[j].id # id]
    ELSE UndefinedItem

\* ------------------------------------------------------ readonly tutorial
UserNames == {"Alice", "Bob", "Carol"}
Models == {"Camry", "Corolla", "Yaris"}
Timeouts == {5000, 10000}

\* constructor(brand, model) { this.brand = brand; this.model = model; }
NewCar(brand, model) == [brand |-> brand, model |-> model]

\* user.name = "Bob"
AssignName(u, name) == [u EXCEPT !.name = name]

AssignModelToBrand(c, model) == [c EXCEPT !.brand = model]
\* car.model = "Corolla"
AssignModel(c, model) == [c EXCEPT !.model = model]

\* config.timeout = 10000
AssignTimeout(c, timeout) == [c EXCEPT !.timeout = timeout]

\* ------------------------------------------------------- never functions
Messages == {"boom", "bad input", ""}

failReturning(message) == [pc |-> "returned", error |-> ""]
\* function fail(message): never { throw new Error(message); }
fail(message) == [pc |-> "thrown", error |-> message]

\* function throwError(message): never { throw new Error(message); }
throwError(message) == [pc |-> "thrown", error |-> message]

\* function logMessage(message): void { console.log(message); }
logMessage(message) == [pc |-> "returned", error |-> ""]

\* the condition of  while (true) { }
LoopCondition == TRUE

Idle == [fn |-> "none", message |-> "", pc |-> "idle", error |-> "", spins |-> 0]

\* ------------------------------------------------------------- isError
\* Status codes passed to isError: the members' and their neighbours.
HttpCodes == {0, 200, 399, 400, 404, 500}

NoVerdict == [called |-> FALSE, code |-> 0, error |-> FALSE]

isErrorAbove(code, HttpStatus) ==
    LET BadRequest == Get(HttpStatus, "BadRequest")
    IN  BadRequest.t = "number" /\ code > BadRequest.n
\* return code >= HttpStatus.BadRequest;  (enums.ts:342): the member is read
\* from the enum object when the function runs.
isError(code, HttpStatus) ==
    LET BadRequest == Get(HttpStatus, "BadRequest")
    IN  BadRequest.t = "number" /\ code >= BadRequest.n

\* -------------------------------------------------------------- arrays
\* An index of an array that holds no element (a hole of a sparse array).
Hole == [t |-> "hole", n |-> 0, s |-> ""]

\* Arrays of at most n elements drawn from S.
ArraysOver(S, n) == UNION {[1..k -> S] : k \in 0..n}

\* i in from, for the i-th index counted from 0
In(from, i) == i + 1 \in 1..Len(from) /\ from[i + 1] # Hole

\* from[i] as a read: a hole reads as undefined
At(from, i) == IF In(from, i) THEN from[i + 1] ELSE Undefined

\* Array.prototype.slice.call(from, start, end)
Slice(from, start, end) == SubSeq(from, start + 1, end)

\* The variable ar of __spreadArray before it is assigned.
NoAr == [made |-> FALSE, a |-> <<>>]

\* for (var i = 0, l = from.length, ar; i < l; i++) { ... }  (arrays.js:4-9)
\* from index i on.  When ar[i] = from[i] runs, ar has exactly i elements.
RECURSIVE SpreadLoop(_, _, _)
SpreadLoop(from, i, ar) ==
    IF i >= Len(from) THEN ar
    ELSE IF ar.made \/ ~In(from, i)
         THEN LET base == IF ar.made THEN ar.a ELSE Slice(from, 0, i)
              IN  SpreadLoop(from, i + 1,
                             [made |-> TRUE, a |-> Append(base, At(from, i))])
         ELSE SpreadLoop(from, i + 1, ar)

spreadArrayInFront(to, from, pack) == from \o to
\* __spreadArray(to, from, pack)  (arrays.js:3-11)
spreadArray(to, from, pack) ==
    LET ar == IF pack THEN SpreadLoop(from, 0, NoAr) ELSE NoAr
    IN  to \o (IF ar.made THEN ar.a ELSE Slice(from, 0, Len(from)))

\* Elements arr1 and arr2 are filled with; the source's are 1, 2 and 3, 4.
Elements1 == {Num(1), Num(2), Hole}
Elements2 == {Num(3), Num(4), Hole}

\* let combined, declared and not yet initialised
NotCombined == [pc |-> "declared", value |-> <<>>]

\* The values pushed; the source pushes 5.
PushValues == {Num(5), Num(6), Num(7)}

\* Array.prototype.push: the receiver afterwards and the value returned
push(array, item) ==
    [this |-> Append(array, item), returns |-> Num(Len(array) + 1)]

\* n => n * 2
Times(n, k) == Num(n.n * k)

mapInPlace(array, k) ==
    LET mapped == [i \in 1..Len(array) |->
                      IF array[i] = Hole THEN Hole ELSE Times(array[i], k)]
    IN  [this |-> mapped, returns |-> mapped]
\* Array.prototype.map with the callback n => n * k: the receiver afterwards
\* and the new array returned
map(array, k) ==
    [this |-> array,
     returns |-> [i \in 1..Len(array) |->
                     IF array[i] = Hole THEN Hole ELSE Times(array[i], k)]]

\* --------------------------------------------------- identityAny, toFixed
\* Arguments of identityAny: "Hello" is the source's, 42 that of identity.
AnyValues == {Str("Hello"), Str(""), Num(0), Num(42)}

identityAnyLength(value) ==
    IF value.t = "string" THEN Num(Len(value.s)) ELSE value
\* function identityAny(value: any): any { return value; }
identityAny(value) == value

RECURSIVE Zeros(_)
Zeros(digits) == IF digits = 0 THEN "" ELSE "0" \o Zeros(digits - 1)

\* Number.prototype.toFixed of a non-negative integer
toFixed(n, digits) ==
    NumberToString(n) \o (IF digits = 0 THEN "" ELSE "." \o Zeros(digits))

\* receiver.toFixed(digits): only a number has the method; calling the
\* missing property of any other value throws a TypeError.
CallToFixed(receiver, digits) ==
    IF receiver.t = "number"
    THEN [pc |-> "returned", value |-> Str(toFixed(receiver.n, digits)), error |-> ""]
    ELSE [pc |-> "thrown", value |-> Undefined, error |-> "TypeError"]

NoX == [pc |-> "declared", arg |-> Undefined, value |-> Undefined]

NoFixed == [arg |-> Undefined, receiver |-> Undefined, digits |-> 0,
            pc |-> "idle", value |-> Undefined, error |-> ""]

\* ------------------------------------------------------------ getCounter
\* Arguments of counter; the source's is 10.
StartValues == {0, 1, 10}

resetAdding(c) == c + 1
\* counter.reset = () => (count = 0)
reset(c) == 0

\* (start: number) => `Count: ${start + count}`
counter(start, c) == "Count: " \o NumberToString(start + c)

NoCounted == [called |-> FALSE, start |-> 0, text |-> "", resets |-> 0]

NoQuery == [op |-> "none", arg |-> Undefined]

Init ==
    /\ Direction = EmptyObject
    /\ members = <<>>
    /\ auto = InitialAuto
    /\ phase = "declaring"
    /\ query = NoQuery
    /\ result = Undefined
    /\ items = <<>>
    /\ got = NoCall
    /\ user = [id |-> 1, name |-> "Alice"]
    /\ car = NewCar("Toyota", "Camry")
    /\ config = [apiKey |-> "123-abc", baseUrl |-> "https://api.example.com",
                 timeout |-> 5000]
    /\ call = Idle
    /\ verdict = NoVerdict
    /\ arr1 = <<Num(1), Num(2)>>
    /\ arr2 = <<Num(3), Num(4)>>
    /\ combined = NotCombined
    /\ numbers = <<Num(1), Num(2), Num(3), Num(4)>>
    /\ doubled = <<>>
    /\ x = NoX
    /\ fixed = NoFixed
    /\ count = 0
    /\ counted = NoCounted

\* One member of the enum body is declared and its statement runs.
EnumMember(name, init) ==
    /\ phase = "declaring"
    /\ LET value == MemberValue(init, auto) IN
        /\ Direction' = WriteMember(Direction, name, value)
        /\ auto' = NextAuto(value, auto)
        /\ members' = Append(members, [name |-> name, init |-> init, value |-> value])
    /\ UNCHANGED <<phase, query, result>>
    /\ UNCHANGED tutorialVars

\* The enum body ends: })(Direction || (Direction = {}))  (enums.ts:164)
EnumEnd ==
    /\ phase = "declaring"
    /\ phase' = "built"
    /\ UNCHANGED <<Direction, members, auto, query, result>>
    /\ UNCHANGED tutorialVars

ForwardDefining(name) ==
    /\ phase = "built"
    /\ query' = [op |-> "forward", arg |-> Str(name)]
    /\ result' = ForwardLookup(Direction, name)
    /\ Direction' = Set(Direction, name, ForwardLookup(Direction, name))
    /\ UNCHANGED <<members, auto, phase>>
    /\ UNCHANGED tutorialVars
\* console.log(Direction.Up)  (enums.ts:39)
Forward(name) ==
    /\ phase = "built"
    /\ query' = [op |-> "forward", arg |-> Str(name)]
    /\ result' = ForwardLookup(Direction, name)
    /\ UNCHANGED <<Direction, members, auto, phase>>
    /\ UNCHANGED tutorialVars

\* console.log(Direction[0])  (enums.ts:45)
Reverse(v) ==
    /\ phase = "built"
    /\ query' = [op |-> "reverse", arg |-> v]
    /\ result' = ReverseLookup(Direction, v)
    /\ UNCHANGED <<Direction, members, auto, phase>>
    /\ UNCHANGED tutorialVars

QueryValues(maxInt) == {Num(v) : v \in 0..maxInt} \cup {Str(s) : s \in Strings}

\* Any declaration over MainNames: bare, integer and string members mixed.
Declare ==
    \E name \in MainNames, init \in Initializers :
        Len(members) < MaxLen /\ EnumMember(name, init)

LookupForward == \E name \in Names : Forward(name)

\* Looked up: the explicit integers, the next one, and the strings.
LookupReverse == \E v \in QueryValues(MaxVal + 1) : Reverse(v)

Next == Declare \/ EnumEnd \/ LookupForward \/ LookupReverse

Spec == Init /\ [][Next]_vars

\* Auto-numbered declarations: the first member is bare or has an explicit
\* integer, every later member is bare (enums.ts:32-37, 52-57).
DeclareFirst ==
    \E name \in Names, init \in {Bare} \cup {Num(v) : v \in 0..MaxVal} :
        members = <<>> /\ EnumMember(name, init)

DeclareBare ==
    \E name \in Names :
        members # <<>> /\ Len(members) < MaxAutoLen /\ EnumMember(name, Bare)

LookupReverseAuto == \E v \in QueryValues(MaxVal + MaxAutoLen) : Reverse(v)

NextAutoNumbered == DeclareFirst \/ DeclareBare \/ EnumEnd \/ LookupForward \/ LookupReverseAuto

SpecAuto == Init /\ [][NextAutoNumbered]_vars

\* ------------------------------------------- the enums the source declares
ShiftLeftAsProduct(a, b) == a * b
\* a << b  (enums.ts:119-120); the shift count is taken modulo 32.  The
\* source shifts 1 by 1 and by 2, far from the 32-bit sign bit.
ShiftLeft(a, b) == a * 2^(b % 32)

\* a | b on non-negative operands  (enums.ts:121)
RECURSIVE BitOr(_, _)
BitOr(a, b) ==
    IF a = 0 THEN b
    ELSE IF b = 0 THEN a
    ELSE (IF a % 2 = 1 \/ b % 2 = 1 THEN 1 ELSE 0) + 2 * BitOr(a \div 2, b \div 2)

SourceEnums == {"Direction2", "Mixed", "FileAccess", "Status", "Color", "HttpStatus"}

\* The member names of each, in declaration order.
SourceNames(e) ==
    CASE e = "Direction2" -> <<"Up", "Down", "Left", "Right">>
      [] e = "Mixed" -> <<"No", "Yes">>
      [] e = "FileAccess" -> <<"None", "Read", "Write", "ReadWrite", "G">>
      [] e = "Status" -> <<"Ready", "Waiting">>
      [] e = "Color" -> <<"Red">>
      [] e = "HttpStatus" -> <<"OK", "NotFound", "BadRequest">>

\* The initializer of the k-th member, evaluated when its statement runs on
\* the object o (ReadWrite reads the members Read and Write).
SourceInitializer(e, k, o) ==
    CASE e = "Direction2" -> <<Num(1), Num(2), Num(3), Num(4)>>[k]
      [] e = "Mixed" -> <<Num(0), Str("YES")>>[k]
      [] e = "FileAccess" ->
            ( CASE k = 1 -> Bare
                [] k = 2 -> Num(ShiftLeft(1, 1))
                [] k = 3 -> Num(ShiftLeft(1, 2))
                [] k = 4 -> Num(BitOr(Get(o, "Read").n, Get(o, "Write").n))
                [] k = 5 -> Num(Len("123")) )
      [] e = "Status" -> Bare
      [] e = "Color" -> Str("RED")
      [] e = "HttpStatus" -> <<Num(200), Num(404), Num(400)>>[k]

\* The members declared so far are the first members of e.
DeclaringSource(e) ==
    /\ Len(members) <= Len(SourceNames(e))
    /\ \A k \in 1..Len(members) : members[k].name = SourceNames(e)[k]

\* The next member statement of one of the source's enums runs.
DeclareSource ==
    \E e \in SourceEnums :
        /\ DeclaringSource(e)
        /\ Len(members) < Len(SourceNames(e))
        /\ EnumMember(SourceNames(e)[Len(members) + 1],
                      SourceInitializer(e, Len(members) + 1, Direction))

SourceAllNames == UNION {{SourceNames(e)[k] : k \in 1..Len(SourceNames(e))} : e \in SourceEnums}

LookupForwardSource == \E name \in SourceAllNames : Forward(name)

LookupReverseSource ==
    \E v \in {Num(n) : n \in 0..6} \cup {Str("YES"), Str("RED")} : Reverse(v)

\* console.log(isError(HttpStatus.OK))  (enums.ts:345-346), once the enum
\* HttpStatus has been declared.
IsErrorCalled ==
    \E code \in HttpCodes :
        /\ phase = "built"
        /\ DeclaringSource("HttpStatus")
        /\ Len(members) = Len(SourceNames("HttpStatus"))
        /\ verdict' = [called |-> TRUE, code |-> code,
                       error |-> isError(code, Direction)]
        /\ UNCHANGED <<enumVars, repoVars, readonlyVars, call,
                       spreadVars, numbersVars, anyVars, counterVars>>

NextSource ==
    \/ DeclareSource \/ EnumEnd \/ LookupForwardSource \/ LookupReverseSource
    \/ IsErrorCalled

SpecSource == Init /\ [][NextSource]_vars

\* ---------------------------------------------------------- Repository
\* add(item: T): void { this.items.push(item); }
add(item) ==
    /\ Len(items) < MaxItems
    /\ items' = Append(items, item)
    /\ UNCHANGED <<got, readonlyVars, call, enumVars, exampleVars>>

\* getById(id: number): T | undefined
getById(id) ==
    /\ got' = [id |-> id, item |-> Find(items, id), size |-> Len(items)]
    /\ UNCHANGED <<items, readonlyVars, call, enumVars, exampleVars>>

RepositoryAdd == \E item \in Entities : add(item)

RepositoryGetById == \E id \in 1..MaxId : getById(id)

NextRepository == RepositoryAdd \/ RepositoryGetById

SpecRepository == Init /\ [][NextRepository]_vars

\* ---------------------------------------- readonly tutorial, never functions
\* user.name = "Bob";   // OK
UserNameAssigned ==
    \E name \in UserNames :
        /\ user' = AssignName(user, name)
        /\ UNCHANGED <<car, config, call, repoVars, enumVars, exampleVars>>

\* car.model = "Corolla";   // Allowed
CarModelAssigned ==
    \E model \in Models :
        /\ car' = AssignModel(car, model)
        /\ UNCHANGED <<user, config, call, repoVars, enumVars, exampleVars>>

\* config.timeout = 10000;   // OK
ConfigTimeoutAssigned ==
    \E timeout \in Timeouts :
        /\ config' = AssignTimeout(config, timeout)
        /\ UNCHANGED <<user, car, call, repoVars, enumVars, exampleVars>>

\* One of the functions is called and control enters its body.
Called ==
    \E fn \in {"fail", "throwError", "logMessage", "infiniteLoop"}, message \in Messages :
        /\ call.pc = "idle"
        /\ (fn = "infiniteLoop") => message = ""
        /\ call' = [fn |-> fn, message |-> message, pc |-> "body", error |-> "",
                    spins |-> 0]
        /\ UNCHANGED <<readonlyVars, repoVars, enumVars, exampleVars>>

\* The body of fail, throwError or logMessage runs to its end; infiniteLoop
\* gets past its loop only when the loop condition is false.
BodyEnds ==
    /\ call.pc = "body"
    /\ \/ call.fn \in {"fail", "throwError", "logMessage"}
       \/ call.fn = "infiniteLoop" /\ ~LoopCondition
    /\ LET end == CASE call.fn = "fail" -> fail(call.message)
                    [] call.fn = "throwError" -> throwError(call.message)
                    [] call.fn = "logMessage" -> logMessage(call.message)
                    [] OTHER -> [pc |-> "returned", error |-> ""]
       IN call' = [call EXCEPT !.pc = end.pc, !.error = end.error]
    /\ UNCHANGED <<readonlyVars, repoVars, enumVars, exampleVars>>

\* while (true) { }: one more iteration.
LoopIterates ==
    /\ call.pc = "body"
    /\ call.fn = "infiniteLoop"
    /\ LoopCondition
    /\ call' = [call EXCEPT !.spins = IF @ < MaxSpins THEN @ + 1 ELSE @]
    /\ UNCHANGED <<readonlyVars, repoVars, enumVars, exampleVars>>

NextScripts ==
    \/ UserNameAssigned \/ CarModelAssigned \/ ConfigTimeoutAssigned
    \/ Called \/ BodyEnds \/ LoopIterates

SpecScripts == Init /\ [][NextScripts]_vars

\* ------------------------------------------------- spread of two arrays
\* let arr1: number[] = [1, 2];
Arr1Assigned ==
    \E array \in ArraysOver(Elements1, MaxArrayLen) :
        /\ combined.pc = "declared"
        /\ arr1' = array
        /\ UNCHANGED <<arr2, combined, verdict, numbersVars, anyVars, counterVars,
                       enumVars, repoVars, readonlyVars, call>>

\* let arr2: number[] = [3, 4];
Arr2Assigned ==
    \E array \in ArraysOver(Elements2, MaxArrayLen) :
        /\ combined.pc = "declared"
        /\ arr2' = array
        /\ UNCHANGED <<arr1, combined, verdict, numbersVars, anyVars, counterVars,
                       enumVars, repoVars, readonlyVars, call>>

\* var combined = __spreadArray(__spreadArray([], arr1, true), arr2, true);
ArraysSpread ==
    /\ combined.pc = "declared"
    /\ combined' = [pc |-> "assigned",
                    value |-> spreadArray(spreadArray(<<>>, arr1, TRUE), arr2, TRUE)]
    /\ UNCHANGED <<arr1, arr2, verdict, numbersVars, anyVars, counterVars,
                   enumVars, repoVars, readonlyVars, call>>

NextSpread == Arr1Assigned \/ Arr2Assigned \/ ArraysSpread

SpecSpread == Init /\ [][NextSpread]_vars

\* ---------------------------------------------------------- push and map
\* numbers.push(5);
Pushed(item) ==
    /\ Len(numbers) < 4 + MaxPush
    /\ numbers' = push(numbers, item).this
    /\ UNCHANGED <<doubled, verdict, spreadVars, anyVars, counterVars,
                   enumVars, repoVars, readonlyVars, call>>

NumbersPushed == \E item \in PushValues : Pushed(item)

\* let doubled = numbers.map(n => n * 2);
NumbersMapped ==
    /\ numbers' = map(numbers, 2).this
    /\ doubled' = map(numbers, 2).returns
    /\ UNCHANGED <<verdict, spreadVars, anyVars, counterVars,
                   enumVars, repoVars, readonlyVars, call>>

NextNumbers == NumbersPushed \/ NumbersMapped

SpecNumbers == Init /\ [][NextNumbers]_vars

\* ------------------------------------- identityAny, toFixed, getCounter
\* let x = identityAny("Hello");
IdentityAnyCalled ==
    \E value \in AnyValues :
        /\ x' = [pc |-> "assigned", arg |-> value, value |-> identityAny(value)]
        /\ UNCHANGED <<fixed, verdict, spreadVars, numbersVars, counterVars,
                       enumVars, repoVars, readonlyVars, call>>

\* x.toFixed(2);
ToFixedCalled ==
    \E digits \in 0..MaxDigits :
        /\ x.pc = "assigned"
        /\ LET end == CallToFixed(x.value, digits)
           IN  fixed' = [arg |-> x.arg, receiver |-> x.value, digits |-> digits,
                         pc |-> end.pc, value |-> end.value, error |-> end.error]
        /\ UNCHANGED <<x, verdict, spreadVars, numbersVars, counterVars,
                       enumVars, repoVars, readonlyVars, call>>

\* console.log(counter(10));
CounterCalled ==
    \E start \in StartValues :
        /\ counted' = [counted EXCEPT !.called = TRUE, !.start = start,
                                      !.text = counter(start, count)]
        /\ UNCHANGED <<count, verdict, spreadVars, numbersVars, anyVars,
                       enumVars, repoVars, readonlyVars, call>>

\* counter.reset();  counted then holds no call made since this reset.
CounterReset ==
    /\ count' = reset(count)
    /\ counted' = [NoCounted EXCEPT
                      !.resets = IF counted.resets < MaxResets
                                 THEN counted.resets + 1 ELSE counted.resets]
    /\ UNCHANGED <<verdict, spreadVars, numbersVars, anyVars,
                   enumVars, repoVars, readonlyVars, call>>

NextCalls == IdentityAnyCalled \/ ToFixedCalled \/ CounterCalled \/ CounterReset

SpecCalls == Init /\ [][NextCalls]_vars

\* ------------------------------------------------- what the claims speak of
Indices == 1..Len(members)

MemberNames == {members[k].name : k \in Indices}

AllBare == \A k \in Indices : members[k].init = Bare

DistinctNames ==
    \A i, j \in Indices : i # j => members[i].name # members[j].name

AllNumeric == \A k \in Indices : members[k].value.t = "number"

DistinctValues ==
    \A i, j \in Indices : i # j => members[i].value # members[j].value

\* The last member declared with this name / bound to this value.
LastNamed(name) ==
    CHOOSE k \in Indices :
        /\ members[k].name = name
        /\ \A j \in Indices : members[j].name = name => j <= k

LastBound(value) ==
    CHOOSE k \in Indices :
        /\ members[k].value = value
        /\ \A j \in Indices : members[j].value = value => j <= k

BoundNumbers == {members[k].value : k \in {i \in Indices : members[i].value.t = "number"}}

\* The property keys the member statements have written.
WrittenKeys ==
    MemberNames \cup
    {ToPropertyKey(members[k].value) : k \in {i \in Indices : members[i].value.t # "string"}}

\* C1: in a registry built from N pairwise-distinct bare names, forward
\* lookup of the name at 0-indexed position k returns k; [Up, Down, Left,
\* Right] gives forward(Up) = 0 and forward(Right) = 3.
C1_BareNamesCountFromZero ==
    (AllBare /\ DistinctNames) =>
        /\ \A k \in Indices :
              ForwardLookup(Direction, members[k].name) = Num(k - 1)
        /\ \A k \in Indices :
              (query = [op |-> "forward", arg |-> Str(members[k].name)])
                  => result = Num(k - 1)

C1_Witness ==
    /\ phase = "built"
    /\ AllBare
    /\ [k \in Indices |-> members[k].name] = <<"Up", "Down", "Left", "Right">>
    /\ ForwardLookup(Direction, "Up") = Num(0)
    /\ query = [op |-> "forward", arg |-> Str("Right")]
    /\ result = Num(3)

\* C2: when the first entry has the explicit integer S and every later
\* entry is bare, the i-th bare entry (i = 1, 2, ...) has forward value
\* S + i; [(Up,1), Down, Left] gives 1, 2, 3.
C2_BareAfterStartCountFromStart ==
    ( /\ members # <<>>
      /\ members[1].init.t = "number"
      /\ \A k \in Indices : k > 1 => members[k].init = Bare
      /\ DistinctNames ) =>
        LET S == members[1].init.n IN
        /\ ForwardLookup(Direction, members[1].name) = Num(S)
        /\ \A i \in 1..(Len(members) - 1) :
              /\ ForwardLookup(Direction, members[i + 1].name) = Num(S + i)
              /\ (query = [op |-> "forward", arg |-> Str(members[i + 1].name)])
                    => result = Num(S + i)

C2_Witness ==
    /\ phase = "built"
    /\ members = << [name |-> "Up", init |-> Num(1), value |-> Num(1)],
                    [name |-> "Down", init |-> Bare, value |-> Num(2)],
                    [name |-> "Left", init |-> Bare, value |-> Num(3)] >>
    /\ ForwardLookup(Direction, "Up") = Num(1)
    /\ ForwardLookup(Direction, "Down") = Num(2)
    /\ query = [op |-> "forward", arg |-> Str("Left")]
    /\ result = Num(3)

\* C3: when every value of the registry is an integer and the values are
\* pairwise distinct, reverse lookup inverts forward lookup: for every
\* name n of the registry, reverse(forward(n)) is n and not undefined.
C3_ReverseInvertsForward ==
    (AllNumeric /\ DistinctValues) =>
        \A k \in Indices :
            /\ ReverseLookup(Direction, ForwardLookup(Direction, members[k].name))
                  = Str(members[k].name)
            /\ (query = [op |-> "reverse", arg |-> members[k].value])
                  => result = Str(members[k].name)

C3_Witness ==
    /\ phase = "built"
    /\ Len(members) = 3
    /\ AllNumeric /\ DistinctValues
    /\ members[2].init = Bare
    /\ query = [op |-> "reverse", arg |-> ForwardLookup(Direction, members[3].name)]
    /\ result = Str(members[3].name)

\* C4: constructing a registry from entries of which two have the same name
\* fails with DuplicateNameError, whatever their values, and produces no
\* registry.  (Stated of the enum object: a declaration that repeats a name
\* never gets built.)
C4_DuplicateNameFails == (phase = "built") => DistinctNames

\* C5 as stated: in a registry (names pairwise distinct) reverse lookup of
\* the string value of a string-valued entry never returns a name (it is
\* undefined).
C5_StringValueNeverReverses ==
    DistinctNames =>
        \A k \in Indices :
            ( /\ members[k].value.t = "string"
              /\ query = [op |-> "reverse", arg |-> members[k].value] )
                => result = Undefined

\* C5 as amended: reverse lookup of the string value of a string-valued
\* entry is undefined unless that string is itself a key the declaration
\* wrote: a member's name, or the decimal text of a bound integer.
C5_StringValueReversesOnlyAsKey ==
    \A k \in Indices :
        (members[k].value.t = "string" /\ members[k].value.s \notin WrittenKeys) =>
            /\ ReverseLookup(Direction, members[k].value) = Undefined
            /\ (query = [op |-> "reverse", arg |-> members[k].value])
                  => result = Undefined

C5_Witness ==
    /\ phase = "built"
    /\ \E k \in Indices : members[k].name = "Up" /\ members[k].value = Str("UP")
    /\ \E k \in Indices : members[k].value.t = "number"
    /\ query = [op |-> "reverse", arg |-> Str("UP")]
    /\ result = Undefined

\* C6: an entry with an explicit integer v, at any position, is bound to v
\* and resets the counter to v + 1: a bare entry directly after it is bound
\* to v + 1, also when v is lower than values assigned earlier.
C6_ExplicitIntegerResetsCounter ==
    \A k \in Indices :
        (members[k].init.t = "number") =>
            LET v == members[k].init.n IN
            /\ members[k].value = Num(v)
            /\ (k = Len(members)) => auto = v + 1
            /\ (k < Len(members) /\ members[k + 1].init = Bare) =>
                  /\ members[k + 1].value = Num(v + 1)
                  /\ DistinctNames =>
                        ForwardLookup(Direction, members[k + 1].name) = Num(v + 1)
            /\ DistinctNames => ForwardLookup(Direction, members[k].name) = Num(v)

C6_Witness ==
    /\ phase = "built"
    /\ Len(members) = 3
    /\ DistinctNames
    /\ members[1].value = Num(1)
    /\ members[2].init = Num(0)
    /\ members[3].init = Bare
    /\ query = [op |-> "forward", arg |-> Str(members[3].name)]
    /\ result = Num(1)

\* The counter as C7 describes it: a string entry leaves it unchanged.
RECURSIVE CounterLeftUnchanged(_)
CounterLeftUnchanged(k) ==
    IF k = 0 THEN 0
    ELSE IF members[k].init.t = "string" THEN CounterLeftUnchanged(k - 1)
    ELSE IF members[k].init.t = "number" THEN members[k].init.n + 1
    ELSE CounterLeftUnchanged(k - 1) + 1

C8_LaterNameWinsReverse ==
    DistinctNames =>
        \A i, j \in Indices :
            (i < j /\ members[i].value.t = "number"
                   /\ members[i].value = members[j].value) =>
                /\ ForwardLookup(Direction, members[i].name) = members[i].value
                /\ ForwardLookup(Direction, members[j].name) = members[i].value
                /\ ReverseLookup(Direction, members[i].value)
                      = Str(members[LastBound(members[i].value)].name)
                /\ ReverseLookup(Direction, members[i].value) # Str(members[i].name)
                /\ (query = [op |-> "reverse", arg |-> members[i].value]) =>
                      result = Str(members[LastBound(members[i].value)].name)

C8_Witness ==
    /\ phase = "built"
    /\ Len(members) = 2
    /\ members[1].name = "Up" /\ members[2].name = "Down"
    /\ members[1].value = Num(1) /\ members[2].value = Num(1)
    /\ ForwardLookup(Direction, "Up") = Num(1)
    /\ ForwardLookup(Direction, "Down") = Num(1)
    /\ query = [op |-> "reverse", arg |-> Num(1)]
    /\ result = Str("Down")

\* C9: forward lookup of a name returns the value bound to it when the name
\* is an entry of the registry and is undefined (NameNotFoundError) for
\* every name that is not: it never returns a value for an absent name.
C9_ForwardLookupByName ==
    /\ \A name \in Names :
          ForwardLookup(Direction, name) =
              IF name \in MemberNames
              THEN members[LastNamed(name)].value
              ELSE Undefined
    /\ (query.op = "forward") =>
          result = IF query.arg.s \in MemberNames
                   THEN members[LastNamed(query.arg.s)].value
                   ELSE Undefined

C9_Witness ==
    /\ phase = "built"
    /\ Len(members) = 2
    /\ \E k \in Indices : members[k].value.t = "string"
    /\ \E k \in Indices : members[k].value.t = "number"
    /\ query.op = "forward"
    /\ query.arg.s \notin MemberNames
    /\ result = Undefined

\* C10 as stated: reverse lookup of a value returns the most recently
\* assigned name bound to it when some integer-valued entry has it, and is
\* undefined (NoReverseMappingError) when the queried value is a string or
\* an integer no entry is bound to.
C10_ReverseLookupByValue ==
    (DistinctNames /\ query.op = "reverse") =>
        result = IF query.arg \in BoundNumbers
                 THEN Str(members[LastBound(query.arg)].name)
                 ELSE Undefined

\* C10 as amended: as stated for a queried integer; for a queried string,
\* undefined when the string is not itself a key the declaration wrote (a
\* member's name, or the decimal text of a bound integer).
C10_ReverseLookupByKey ==
    (query.op = "reverse") =>
        /\ (query.arg \in BoundNumbers) =>
              result = Str(members[LastBound(query.arg)].name)
        /\ (query.arg.t = "number" /\ query.arg \notin BoundNumbers) =>
              result = Undefined
        /\ (query.arg.t = "string" /\ query.arg.s \notin WrittenKeys) =>
              result = Undefined

C10_Witness ==
    /\ phase = "built"
    /\ Len(members) = 2
    /\ BoundNumbers # {}
    /\ query.op = "reverse"
    /\ query.arg.t = "number"
    /\ query.arg \notin BoundNumbers
    /\ result = Undefined

\* Every bare entry is the first entry or directly follows a bare or
\* integer-valued entry (none directly follows a string-valued entry).
NoBareAfterString ==
    \A k \in Indices :
        (members[k].init = Bare /\ k > 1) => members[k - 1].init.t # "string"

\* A registry is constructed: the declaration can end, and every entry's
\* name is bound to an integer or a string.
Constructed ==
    /\ (phase = "declaring") => ENABLED EnumEnd
    /\ \A k \in Indices :
          /\ members[k].value.t \in {"number", "string"}
          /\ ForwardLookup(Direction, members[k].name) = members[k].value

C15_MixedRegistryNeverReverses ==
    ( /\ DistinctNames
      /\ \E k \in Indices : members[k].value.t = "string"
      /\ query.op = "reverse" ) => result = Undefined

\* C15 as amended: in a registry with at least one string-valued entry the
\* string-valued entries add no reverse key, but the integer value of every
\* integer-valued entry is still resolved to the latest name bound to it.
C15_MixedRegistryReversesIntegers ==
    (\E k \in Indices : members[k].value.t = "string") =>
        /\ \A k \in Indices :
              (members[k].value.t = "number") =>
                  /\ ReverseLookup(Direction, members[k].value)
                        = Str(members[LastBound(members[k].value)].name)
                  /\ (query = [op |-> "reverse", arg |-> members[k].value]) =>
                        result = Str(members[LastBound(members[k].value)].name)
        /\ \A k \in Indices :
              (members[k].value.t = "string") =>
                  \/ members[k].value.s \in WrittenKeys
                  \/ ReverseLookup(Direction, members[k].value) = Undefined

C15_Witness ==
    /\ phase = "built"
    /\ Len(members) = 2
    /\ DistinctNames
    /\ members[1].value = Num(0)
    /\ members[2].value = Str("UP")
    /\ query = [op |-> "reverse", arg |-> Num(0)]
    /\ result = Str(members[1].name)

\* The whole of the source's enum e has been declared.
Declared(e) == DeclaringSource(e) /\ Len(members) = Len(SourceNames(e))

\* C14: for Mixed = [(No,0), (Yes,"YES")], forward(Yes) is "YES", reverse(0)
\* is "No" and reverse("YES") is undefined (NoReverseMappingError).
C14_MixedScenario ==
    Declared("Mixed") =>
        /\ ForwardLookup(Direction, "Yes") = Str("YES")
        /\ ReverseLookup(Direction, Num(0)) = Str("No")
        /\ ReverseLookup(Direction, Str("YES")) = Undefined
        /\ (query = [op |-> "forward", arg |-> Str("Yes")]) => result = Str("YES")
        /\ (query = [op |-> "reverse", arg |-> Num(0)]) => result = Str("No")
        /\ (query = [op |-> "reverse", arg |-> Str("YES")]) => result = Undefined

C14_Witness ==
    /\ phase = "built"
    /\ Declared("Mixed")
    /\ ForwardLookup(Direction, "Yes") = Str("YES")
    /\ ReverseLookup(Direction, Num(0)) = Str("No")
    /\ query = [op |-> "reverse", arg |-> Str("YES")]
    /\ result = Undefined

\* C16: for Direction2 = [(Up,1), (Down,2), (Left,3), (Right,4)], forward
\* lookup of Up yields "UP" and reverse lookup of 2 yields undefined.
C16_Direction2AsCommented ==
    (Declared("Direction2") /\ phase = "built") =>
        /\ (query = [op |-> "forward", arg |-> Str("Up")]) => result = Str("UP")
        /\ (query = [op |-> "reverse", arg |-> Num(2)]) => result = Undefined

\* C17: FileAccess has None = 0, Read = 1 << 1 = 2, Write = 1 << 2 = 4,
\* ReadWrite = Read | Write = 6 and G = 3: five distinct integers, and
\* reverse lookup of each returns exactly the member that produced it.
C17_FileAccessValues ==
    Declared("FileAccess") =>
        /\ [k \in 1..5 |-> members[k].value] = <<Num(0), Num(2), Num(4), Num(6), Num(3)>>
        /\ DistinctValues
        /\ \A k \in 1..5 :
              /\ ForwardLookup(Direction, members[k].name) = members[k].value
              /\ ReverseLookup(Direction, members[k].value) = Str(members[k].name)
              /\ (query = [op |-> "reverse", arg |-> members[k].value]) =>
                    result = Str(members[k].name)

C17_Witness ==
    /\ phase = "built"
    /\ Declared("FileAccess")
    /\ ForwardLookup(Direction, "ReadWrite") = Num(6)
    /\ query = [op |-> "reverse", arg |-> Num(6)]
    /\ result = Str("ReadWrite")

\* Some item with this id is among the first n items added.
Added(id, n) == \E k \in 1..n : items[k].id = id

\* C18: after any sequence of add calls, getById(id) returns an item whose
\* id equals id exactly when some item with that id has been added, and
\* undefined otherwise; after add({id: 1, name: "Alice"}) on an empty
\* repository getById(1) returns {id: 1, name: "Alice"}.
C18_GetByIdFindsAddedItem ==
    /\ \A id \in 1..MaxId :
          IF Added(id, Len(items))
          THEN /\ Find(items, id).id = id
               /\ \E k \in 1..Len(items) : items[k] = Find(items, id)
          ELSE Find(items, id) = UndefinedItem
    /\ (got.id # 0) =>
          IF Added(got.id, got.size)
          THEN /\ got.item.id = got.id
               /\ \E k \in 1..got.size : items[k] = got.item
          ELSE got.item = UndefinedItem
    /\ (got.id = 1 /\ got.size = 1 /\ items[1] = Entity(1, "Alice")) =>
          got.item = Entity(1, "Alice")

C18_Witness ==
    /\ items = <<Entity(1, "Alice")>>
    /\ got = [id |-> 1, item |-> Entity(1, "Alice"), size |-> 1]

\* C19: a readonly property keeps the value given at initialization: after
\* any sequence of the permitted assignments (user.name, car.model) the
\* user's id is still 1 and the car's brand is still "Toyota".
C19_ReadonlyPropertiesKeepValue ==
    /\ user.id = 1
    /\ car.brand = "Toyota"

C19_Witness ==
    /\ user.name = "Bob"
    /\ car.model = "Corolla"
    /\ user.id = 1
    /\ car.brand = "Toyota"

\* C20: the functions typed never do not return: fail(message) and
\* throwError(message) end by throwing an Error that carries message, and
\* infiniteLoop() never gets past its loop.
C20_NeverFunctionsDoNotReturn ==
    /\ (call.fn \in {"fail", "throwError", "infiniteLoop"}) => call.pc # "returned"
    /\ (call.fn \in {"fail", "throwError"}) =>
          /\ call.pc \in {"body", "thrown"}
          /\ (call.pc = "body") => ENABLED BodyEnds
          /\ (call.pc = "thrown") => call.error = call.message
    /\ (call.fn = "infiniteLoop") =>
          /\ call.pc = "body"
          /\ ENABLED LoopIterates
          /\ ~ ENABLED BodyEnds

C20_Witness ==
    /\ call.fn = "fail"
    /\ call.pc = "thrown"
    /\ call.message = "boom"
    /\ call.error = "boom"

\* C21: isError(code) returns true exactly when code >= HttpStatus.BadRequest
\* (400): with OK = 200, NotFound = 404 and BadRequest = 400 it returns
\* false for OK and true for NotFound and BadRequest.
C21_IsErrorFromBadRequest ==
    /\ Declared("HttpStatus") =>
          /\ ForwardLookup(Direction, "OK") = Num(200)
          /\ ForwardLookup(Direction, "NotFound") = Num(404)
          /\ ForwardLookup(Direction, "BadRequest") = Num(400)
          /\ \A code \in HttpCodes : isError(code, Direction) <=> (code >= 400)
    /\ verdict.called =>
          /\ Declared("HttpStatus")
          /\ verdict.error <=> (verdict.code >= 400)
          /\ (verdict.code = 200) => ~verdict.error
          /\ (verdict.code \in {404, 400}) => verdict.error

C21_Witness ==
    /\ Declared("HttpStatus")
    /\ verdict = [called |-> TRUE, code |-> 400, error |-> TRUE]

\* What reading every index of the array yields: a hole reads as undefined.
Read(array) ==
    [i \in 1..Len(array) |-> IF array[i] = Hole THEN Undefined ELSE array[i]]

Dense(array) == \A i \in 1..Len(array) : array[i] # Hole

\* C22: [...arr1, ...arr2] yields the elements of arr1 in order followed by
\* the elements of arr2 in order, its length is the sum of the two lengths,
\* and arr1 and arr2 are left unchanged; for [1,2] and [3,4] the result is
\* [1,2,3,4].
C22_SpreadConcatenates ==
    [][ArraysSpread =>
          /\ combined'.pc = "assigned"
          /\ combined'.value = Read(arr1) \o Read(arr2)
          /\ (Dense(arr1) /\ Dense(arr2)) => combined'.value = arr1 \o arr2
          /\ Len(combined'.value) = Len(arr1) + Len(arr2)
          /\ arr1' = arr1
          /\ arr2' = arr2
          /\ (arr1 = <<Num(1), Num(2)>> /\ arr2 = <<Num(3), Num(4)>>) =>
                combined'.value = <<Num(1), Num(2), Num(3), Num(4)>>]_vars

C22_Witness ==
    /\ arr1 = <<Num(1), Num(2)>>
    /\ arr2 = <<Num(3), Num(4)>>
    /\ combined = [pc |-> "assigned", value |-> <<Num(1), Num(2), Num(3), Num(4)>>]

\* C23: identityAny returns its argument unchanged, so x = identityAny("Hello")
\* is still a string, and x.toFixed(2) ends in a runtime error, not a value.
C23_ToFixedOnStringThrows ==
    /\ (x.pc = "assigned") => x.value = x.arg
    /\ (fixed.pc # "idle" /\ fixed.arg.t = "string") =>
          /\ fixed.receiver = fixed.arg
          /\ fixed.pc = "thrown"
          /\ fixed.error = "TypeError"
          /\ fixed.value = Undefined

C23_Witness ==
    /\ x = [pc |-> "assigned", arg |-> Str("Hello"), value |-> Str("Hello")]
    /\ fixed.arg = Str("Hello")
    /\ fixed.digits = 2
    /\ fixed.pc = "thrown"

\* C24: after any sequence of counter(n) and reset() calls the hidden count
\* is 0, so counter(start) returns "Count: " followed by start (counter(10)
\* returns "Count: 10"), and reset() changes no later result.
C24_CountStaysZero ==
    /\ count = 0
    /\ counted.called =>
          /\ counted.text = "Count: " \o NumberToString(counted.start)
          /\ (counted.start = 10) => counted.text = "Count: 10"
          /\ (counted.start = 0) => counted.text = "Count: 0"
          /\ (counted.start = 1) => counted.text = "Count: 1"

C24_Witness ==
    /\ counted.called
    /\ counted.resets >= 1
    /\ counted.start = 10
    /\ counted.text = "Count: 10"

\* C25: push changes the array it is called on and map does not: after
\* numbers = [1,2,3,4], numbers.push(5) makes numbers [1,2,3,4,5], and
\* numbers.map(n => n * 2) returns a new array of the same length whose
\* i-th element is twice numbers[i] while numbers is left unchanged.
C25_PushChangesMapDoesNot ==
    [][/\ \A item \in PushValues :
             Pushed(item) => /\ numbers' = numbers \o <<item>>
                             /\ numbers' # numbers
       /\ (numbers = <<Num(1), Num(2), Num(3), Num(4)>> /\ Pushed(Num(5))) =>
             numbers' = <<Num(1), Num(2), Num(3), Num(4), Num(5)>>
       /\ NumbersMapped =>
             /\ numbers' = numbers
             /\ Len(doubled') = Len(numbers)
             /\ \A i \in 1..Len(numbers) : doubled'[i] = Num(2 * numbers[i].n)]_vars

C25_Witness ==
    /\ numbers = <<Num(1), Num(2), Num(3), Num(4), Num(5)>>
    /\ doubled = <<Num(2), Num(4), Num(6), Num(8), Num(10)>>

====
